---- MODULE Spec2Model ----
(***************************************************************************)
(* GPA & Graduation Planner: the arithmetic core of src/main.py            *)
(* (compute_gpa, compute_cgpa, classify_honors, project_needed_average,    *)
(* generate_advice) and the request validation of src/schemas.py.          *)
(*                                                                         *)
(* Numbers are fixed point.  A credit-hour quantity is an integer number   *)
(* of 1/10000 credit hours (10.0001 h = 100001), a grade's point value is  *)
(* an integer number of tenths (E = 0.5 = 5), and every value the code     *)
(* passes through round(x, 3) is an integer number of thousandths.         *)
(* A classification threshold is an integer number of hundredths, as it    *)
(* is written in HONORS_BANDS (3.70 = 370).  Arithmetic is exact: the      *)
(* binary representation error of Python floats is not modelled, and       *)
(* round() resolves an exact tie to the even neighbour, as Python does.    *)
(*                                                                         *)
(* A string the code transforms (a course code, a category) is a sequence  *)
(* of one-character strings; a grade letter and a label are strings.       *)
(* Course.name and Course.semester are read by no function of the core     *)
(* and are left out of the Course record.                                  *)
(***************************************************************************)
EXTENDS Integers, Sequences, FiniteSets, TLC

VARIABLES op, arg, result, pc

vars == <<op, arg, result, pc>>

----------------------------------------------------------------------------
(* Values *)

NoGrade == "None"
NoCategory == <<>>
NoTerm == "NoTerm"
NoTarget == "None"
NoResult == [status |-> "pending"]

\* credit hours h (an integer) and h + f/10000
CH(h, f) == h * 10000 + f

\* schemas.py: GRADE_POINTS, in tenths of a point
GRADE_POINTS == [A |-> 40, B |-> 30, C |-> 20, D |-> 10, E |-> 5, F |-> 0]

\* schemas.py: HONORS_BANDS, in dict (insertion) order, thresholds in hundredths
HONORS_BANDS ==
    << [label |-> "First Class Honors", threshold |-> 370],
       [label |-> "Second Class Upper", threshold |-> 330],
       [label |-> "Second Class Lower", threshold |-> 270],
       [label |-> "Pass", threshold |-> 200] >>

BandLabels == {HONORS_BANDS[i].label : i \in DOMAIN HONORS_BANDS}

\* HONORS_BANDS[label]
BandThreshold(label) ==
    LET i == CHOOSE j \in DOMAIN HONORS_BANDS : HONORS_BANDS[j].label = label
    IN  HONORS_BANDS[i].threshold

----------------------------------------------------------------------------
(* str.upper(), str.lower(), str.strip() on sequences of characters *)

UpperChar(ch) ==
    CASE ch = "a" -> "A" [] ch = "b" -> "B" [] ch = "c" -> "C"
      [] ch = "d" -> "D" [] ch = "e" -> "E" [] ch = "f" -> "F"
      [] ch = "h" -> "H" [] ch = "m" -> "M" [] ch = "t" -> "T"
      [] OTHER -> ch

LowerChar(ch) ==
    CASE ch = "A" -> "a" [] ch = "B" -> "b" [] ch = "C" -> "c"
      [] ch = "D" -> "d" [] ch = "E" -> "e" [] ch = "F" -> "f"
      [] ch = "H" -> "h" [] ch = "M" -> "m" [] ch = "T" -> "t"
      [] OTHER -> ch

Upper(s) == [i \in DOMAIN s |-> UpperChar(s[i])]

Lower(s) == [i \in DOMAIN s |-> LowerChar(s[i])]

RECURSIVE LStrip(_)
LStrip(s) == IF s # <<>> /\ Head(s) = " " THEN LStrip(Tail(s)) ELSE s

RECURSIVE RStrip(_)
RStrip(s) ==
    IF s # <<>> /\ s[Len(s)] = " " THEN RStrip(SubSeq(s, 1, Len(s) - 1)) ELSE s

Strip(s) == RStrip(LStrip(s))

\* normalize_code without upper()
normalize_code_no_upper(v) == Strip(v)

\* schemas.py: Course.normalize_code
normalize_code(v) == Upper(Strip(v))

----------------------------------------------------------------------------
(* round(x, 3) *)

\* n/d (d > 0) rounded to the nearest integer, an exact tie to the even one
RoundHalfEven(n, d) ==
    LET q == n \div d
        r == n % d
    IN  IF 2 * r < d THEN q
        ELSE IF 2 * r > d THEN q + 1
        ELSE IF q % 2 = 0 THEN q ELSE q + 1

\* k*n/d (k even, n >= 0, d > 0) rounded likewise; the quotient and the
\* remainder of n/d are scaled apart so that no intermediate value leaves
\* 32 bits (k even keeps the parity of the tie rule)
ScaledRound(k, n, d) ==
    (k * (n \div d)) + RoundHalfEven(k * (n % d), d)

----------------------------------------------------------------------------
(* Results *)

\* HTTPException(status_code=400, detail=...): kind names the error, detail
\* the value the message quotes, term the semester term the message quotes
\* (NoTerm: it quotes none)
Err(kind, detail) == [status |-> kind, detail |-> detail, term |-> NoTerm]

\* schemas.py: GPACalcResponse, all three in thousandths
GPACalcResponse(gpa, total_points, total_credits) ==
    [status |-> "ok", gpa |-> gpa, total_points |-> total_points,
     total_credits |-> total_credits]

\* schemas.py: CGPAResponse
CGPAResponse(cgpa, gpas) ==
    [status |-> "ok", cgpa |-> cgpa, gpa_by_semester |-> gpas]

\* schemas.py: ProjectionResponse; target_cgpa in hundredths, needed_avg_gpa
\* in thousandths
ProjectionResponse(target_class, target_cgpa, needed_avg_gpa, message) ==
    [status |-> "ok", target_class |-> target_class, target_cgpa |-> target_cgpa,
     needed_avg_gpa |-> needed_avg_gpa, message |-> message]

IsOk(r) == r.status = "ok"

----------------------------------------------------------------------------
(* Core GPA logic, src/main.py *)

GradeUpper(grade) == UpperChar(grade)

\* main.py: grade_to_points, for a grade that is not None: the point value
\* in tenths, or the InvalidGrade error
grade_to_points(grade) ==
    IF GradeUpper(grade) \notin DOMAIN GRADE_POINTS
    THEN Err("InvalidGrade", grade)
    ELSE [status |-> "ok", pts |-> GRADE_POINTS[GradeUpper(grade)]]

\* main.py: c.code in seen
is_duplicate(c, seen) == c.code \in seen

\* main.py: c.grade is None
is_ungraded(c) == c.grade = NoGrade

\* credit_hours_invalid with >= 10 for > 10
credit_hours_invalid_at_ten(c) == c.credit_hours <= 0 \/ c.credit_hours >= CH(10, 0)

\* main.py: c.credit_hours <= 0 or c.credit_hours > 10
credit_hours_invalid(c) == c.credit_hours <= 0 \/ c.credit_hours > CH(10, 0)

\* weighted_points without the credit weight
weighted_points_unweighted(pts, c) == pts * CH(1, 0)

\* main.py: pts * c.credit_hours
weighted_points(pts, c) == pts * c.credit_hours

\* main.py: round(total_points / total_credits, 3) if total_credits > 0
\* else 0.0
gpa_of(total_points, total_credits) ==
    IF total_credits > 0
    THEN ScaledRound(100, total_points, total_credits) ELSE 0

\* main.py: the loop of compute_gpa from course i on; total_points in
\* 1/100000 point-hours, total_credits in 1/10000 hours
RECURSIVE gpa_loop(_, _, _, _, _)
gpa_loop(courses, i, total_points, total_credits, seen) ==
    IF i > Len(courses)
    THEN GPACalcResponse(
            gpa_of(total_points, total_credits),
            RoundHalfEven(total_points, 100),
            RoundHalfEven(total_credits, 10))
    ELSE LET c == courses[i] IN
         IF is_duplicate(c, seen)
         THEN Err("DuplicateCourse", c.code)
         ELSE IF is_ungraded(c)
         THEN gpa_loop(courses, i + 1, total_points, total_credits,
                       seen \cup {c.code})
         ELSE LET pts == grade_to_points(c.grade) IN
              IF ~IsOk(pts)
              THEN pts
              ELSE IF credit_hours_invalid(c)
              THEN Err("InvalidCreditHours", c.code)
              ELSE gpa_loop(courses, i + 1,
                            total_points + weighted_points(pts.pts, c),
                            total_credits + c.credit_hours,
                            seen \cup {c.code})

\* main.py: compute_gpa
compute_gpa(courses) == gpa_loop(courses, 1, 0, 0, {})

RECURSIVE SumGpa(_)
SumGpa(gpas) == IF gpas = <<>> THEN 0 ELSE Head(gpas).gpa + SumGpa(Tail(gpas))

\* cgpa_of as the arithmetic mean of the per-semester GPAs
cgpa_of_mean(gpas, agg_points, agg_credits) ==
    IF agg_credits > 0 THEN RoundHalfEven(SumGpa(gpas), Len(gpas)) ELSE 0

\* main.py: round(agg_points / agg_credits, 3) if agg_credits > 0 else 0.0
cgpa_of(gpas, agg_points, agg_credits) ==
    IF agg_credits > 0 THEN ScaledRound(1000, agg_points, agg_credits) ELSE 0

\* main.py: the loop of compute_cgpa from semester i on; both sums in
\* thousandths
RECURSIVE cgpa_loop(_, _, _, _, _)
cgpa_loop(semesters, i, gpas, agg_points, agg_credits) ==
    IF i > Len(semesters)
    THEN CGPAResponse(cgpa_of(gpas, agg_points, agg_credits), gpas)
    ELSE LET res == compute_gpa(semesters[i].courses) IN
         IF ~IsOk(res)
         THEN res
         ELSE cgpa_loop(semesters, i + 1, Append(gpas, res),
                        agg_points + res.total_points,
                        agg_credits + res.total_credits)

SemesterIsOk(sem) == IsOk(compute_gpa(sem.courses))

\* compute_cgpa skipping the semesters whose GPA computation fails
compute_cgpa_skip_failed(semesters) ==
    cgpa_loop(SelectSeq(semesters, SemesterIsOk), 1, <<>>, 0, 0)

\* main.py: compute_cgpa
compute_cgpa(semesters) == cgpa_loop(semesters, 1, <<>>, 0, 0)

\* meets_threshold with > for >=
meets_threshold_strict(cgpa, threshold) == cgpa > 10 * threshold

\* main.py: cgpa >= threshold; cgpa in thousandths, threshold in hundredths
meets_threshold(cgpa, threshold) == cgpa >= 10 * threshold

\* main.py: the loop of classify_honors from band i on; cgpa in thousandths
RECURSIVE classify_loop(_, _)
classify_loop(cgpa, i) ==
    IF i > Len(HONORS_BANDS) THEN "Fail"
    ELSE IF meets_threshold(cgpa, HONORS_BANDS[i].threshold) THEN HONORS_BANDS[i].label
    ELSE classify_loop(cgpa, i + 1)

\* main.py: classify_honors
classify_honors(cgpa) == classify_loop(cgpa, 1)

MsgDetermined == "No remaining credits. Your final classification is already determined."
MsgUnreachable == "Even 4.0 average can't reach"
MsgNeedAverage == "You need an average GPA of"

\* clamped_average without min(4.0, ...)
clamped_average_no_upper(required, remaining_credits) ==
    IF required <= 0 THEN 0
    ELSE ScaledRound(10, required, remaining_credits)

\* main.py: round(max(0.0, min(4.0, required_points_remaining /
\* remaining_credits)), 3) in thousandths.  required, in 1/1000000
\* point-hours, is target_cgpa * total_credits_final - completed_points;
\* the quotient is required / (100 * remaining_credits) points.
clamped_average(required, remaining_credits) ==
    IF required >= 400 * remaining_credits THEN 4000
    ELSE IF required <= 0 THEN 0
    ELSE ScaledRound(10, required, remaining_credits)

\* no_remaining with < for <=
no_remaining_strict(remaining_credits) == remaining_credits < 0

\* main.py: remaining_credits <= 0
no_remaining(remaining_credits) == remaining_credits <= 0

\* main.py: the message of project_needed_average
projection_message(needed_avg_gpa) ==
    IF needed_avg_gpa > 4000 THEN MsgUnreachable ELSE MsgNeedAverage

\* project_needed_average taking the early exit before it computes the
\* current totals
project_needed_average_exit_first(completed, remaining_credits, target_class) ==
    IF target_class \notin BandLabels
    THEN Err("UnknownTargetClass", target_class)
    ELSE IF no_remaining(remaining_credits)
    THEN ProjectionResponse(target_class, BandThreshold(target_class), 0,
                            MsgDetermined)
    ELSE LET current == compute_gpa(completed) IN
         IF ~IsOk(current)
         THEN current
         ELSE LET target_cgpa == BandThreshold(target_class)
                  required_points_remaining ==
                      target_cgpa * (10 * current.total_credits + remaining_credits)
                        - 1000 * current.total_points
                  needed_avg_gpa ==
                      clamped_average(required_points_remaining,
                                      remaining_credits)
              IN  ProjectionResponse(target_class, target_cgpa, needed_avg_gpa,
                                     projection_message(needed_avg_gpa))

\* main.py: project_needed_average; remaining_credits in 1/10000 hours
project_needed_average(completed, remaining_credits, target_class) ==
    IF target_class \notin BandLabels
    THEN Err("UnknownTargetClass", target_class)
    ELSE LET current == compute_gpa(completed) IN
         IF ~IsOk(current)
         THEN current
         ELSE IF no_remaining(remaining_credits)
         THEN ProjectionResponse(target_class, BandThreshold(target_class), 0,
                                 MsgDetermined)
         ELSE LET target_cgpa == BandThreshold(target_class)
                  total_credits_final ==
                      10 * current.total_credits + remaining_credits
                  required_points_remaining ==
                      target_cgpa * total_credits_final
                        - 1000 * current.total_points
                  needed_avg_gpa ==
                      clamped_average(required_points_remaining,
                                      remaining_credits)
              IN  ProjectionResponse(
                      target_class, target_cgpa, needed_avg_gpa,
                      projection_message(needed_avg_gpa))

----------------------------------------------------------------------------
(* Heuristic advisor, src/main.py *)

RECURSIVE Flatten(_)
\* [c for s in semesters for c in s.courses]
Flatten(semesters) ==
    IF semesters = <<>> THEN <<>>
    ELSE Head(semesters).courses \o Flatten(Tail(semesters))

IsGraded(c) == c.grade # NoGrade

\* [c for s in semesters for c in s.courses if c.grade is not None]
GradedCourses(semesters) == SelectSeq(Flatten(semesters), IsGraded)

RECURSIVE SumCredits(_)
\* sum(c.credit_hours for c in courses), in 1/10000 hours
SumCredits(courses) ==
    IF courses = <<>> THEN 0
    ELSE Head(courses).credit_hours + SumCredits(Tail(courses))

\* the point value of a graded course whose grade compute_cgpa accepted
PointsOf(c) == GRADE_POINTS[GradeUpper(c.grade)]

\* IsAtRisk with <= 2.0 for < 2.0
IsAtRisk_inclusive(c) == PointsOf(c) <= 20

\* main.py: pts is not None and pts < 2.0
IsAtRisk(c) == PointsOf(c) < 20

\* f"{c.code} ({c.grade})"
RiskLabel(c) == [code |-> c.code, grade |-> c.grade]

\* main.py: risk_courses of generate_advice
risk_courses_of(semesters) ==
    LET weak == SelectSeq(GradedCourses(semesters), IsAtRisk)
    IN  [i \in DOMAIN weak |-> RiskLabel(weak[i])]

HasPositiveCredits(r) == r.total_credits > 0

\* main.py: the trend insight of generate_advice (at most one)
trend_insights(gpa_by_semester) ==
    LET counted == SelectSeq(gpa_by_semester, HasPositiveCredits)
        n == Len(counted)
    IN  IF n < 2 THEN <<>>
        ELSE IF counted[n].gpa < counted[n - 1].gpa - 200
        THEN << [kind |-> "trend_drop"] >>
        ELSE IF counted[n].gpa > counted[n - 1].gpa + 200
        THEN << [kind |-> "trend_improve"] >>
        ELSE <<>>

RECURSIVE category_keys(_, _)
\* the keys of category_scores in insertion order
category_keys(courses, keys) ==
    IF courses = <<>> THEN keys
    ELSE LET c == Head(courses)
             k == Lower(c.category)
         IN  IF c.category = NoCategory
                \/ \E i \in DOMAIN keys : keys[i] = k
             THEN category_keys(Tail(courses), keys)
             ELSE category_keys(Tail(courses), Append(keys, k))

RECURSIVE SumPoints(_)
SumPoints(courses) ==
    IF courses = <<>> THEN 0
    ELSE PointsOf(Head(courses)) + SumPoints(Tail(courses))

\* main.py: the category insights of generate_advice: a category whose
\* mean point value is below 2.3
category_insights(semesters) ==
    LET graded == GradedCourses(semesters)
        keys == category_keys(graded, <<>>)
        InCat(k) == LET Is(c) == c.category # NoCategory /\ Lower(c.category) = k
                    IN  SelectSeq(graded, Is)
        Weak(k) == SumPoints(InCat(k)) < 23 * Len(InCat(k))
        IsWeak(k) == Weak(k)
        weak == SelectSeq(keys, IsWeak)
    IN  [i \in DOMAIN weak |-> [kind |-> "category", cat |-> weak[i]]]

FixedRecommendations ==
    << [kind |-> "spaced_repetition"], [kind |-> "weekly_review"],
       [kind |-> "study_group"], [kind |-> "meet_lecturers"] >>

Min(a, b) == IF a < b THEN a ELSE b
Max(a, b) == IF a > b THEN a ELSE b

\* main.py: recommendations of generate_advice
recommendations_of(risk_courses) ==
    (IF risk_courses # <<>>
     THEN << [kind |-> "weak_units",
              courses |-> SubSeq(risk_courses, 1, Min(5, Len(risk_courses))),
              ellipsis |-> Len(risk_courses) > 5] >>
     ELSE <<>>)
    \o FixedRecommendations

\* main.py: remaining_estimate of generate_advice, in 1/10000 hours
remaining_estimate_of(semesters) ==
    Max(0, CH(180, 0) - SumCredits(GradedCourses(semesters)))

\* main.py: target of generate_advice
target_of(profile) ==
    IF profile.target_class = NoTarget THEN "Second Class Upper"
    ELSE profile.target_class

\* main.py: generate_advice
generate_advice(profile, semesters) ==
    LET cgpa_info == compute_cgpa(semesters) IN
    IF ~IsOk(cgpa_info) THEN cgpa_info
    ELSE LET risk_courses == risk_courses_of(semesters)
             proj == project_needed_average(GradedCourses(semesters),
                                            remaining_estimate_of(semesters),
                                            target_of(profile))
         IN  IF ~IsOk(proj) THEN proj
             ELSE [status |-> "ok",
                   insights |->
                       trend_insights(cgpa_info.gpa_by_semester)
                         \o category_insights(semesters)
                         \o << [kind |-> "projection", message |-> proj.message] >>,
                   recommendations |-> recommendations_of(risk_courses),
                   risk_courses |-> risk_courses]

----------------------------------------------------------------------------
(* Request validation, src/schemas.py, and the endpoints of src/main.py *)

GradeLetter == {"A", "B", "C", "D", "E", "F"}

\* schemas.py: the field constraints of Course
CourseValid(raw) ==
    /\ Len(raw.code) >= 2 /\ Len(raw.code) <= 16
    /\ raw.credit_hours > 0 /\ raw.credit_hours <= CH(10, 0)
    /\ raw.grade \in GradeLetter \cup {NoGrade}

\* schemas.py: Course, built from a valid payload
Course(raw) == [raw EXCEPT !.code = normalize_code(raw.code)]

CoursesValid(raws) == \A i \in DOMAIN raws : CourseValid(raws[i])

Courses(raws) == [i \in DOMAIN raws |-> Course(raws[i])]

\* schemas.py: SemesterRecord
SemestersValid(raws) == \A i \in DOMAIN raws : CoursesValid(raws[i].courses)

Semesters(raws) ==
    [i \in DOMAIN raws |-> [term |-> raws[i].term, courses |-> Courses(raws[i].courses)]]

ValidationError == [status |-> "ValidationError", detail |-> <<>>, term |-> NoTerm]

\* main.py: api_gpa
api_gpa(req) ==
    IF ~CoursesValid(req.courses) THEN ValidationError
    ELSE compute_gpa(Courses(req.courses))

\* main.py: api_cgpa
api_cgpa(req) ==
    IF ~SemestersValid(req.semesters) THEN ValidationError
    ELSE LET data == compute_cgpa(Semesters(req.semesters)) IN
         IF ~IsOk(data) THEN data
         ELSE [status |-> "ok", cgpa |-> data.cgpa,
               gpa_by_semester |-> data.gpa_by_semester,
               classification |-> classify_honors(data.cgpa)]

\* main.py: api_project, with the constraints of ProjectionRequest
api_project(req) ==
    IF ~CoursesValid(req.completed) \/ ~(req.remaining_credits > 0)
    THEN ValidationError
    ELSE project_needed_average(Courses(req.completed), req.remaining_credits,
                                req.target_class)

----------------------------------------------------------------------------
(* The calls the model makes: one call per behaviour, its input drawn in   *)
(* Init and its handler applied by the action of that name.                *)

MaxCourses == 3
MaxCompleted == 2
MaxSemesters == 3
MaxGraded == 7

T1 == <<"T", "1">>
T2 == <<"T", "2">>
T3 == <<"T", "3">>

Crs(code, credit_hours, grade) ==
    [code |-> code, credit_hours |-> credit_hours, grade |-> grade,
     category |-> NoCategory]

CrsCat(code, credit_hours, grade, category) ==
    [code |-> code, credit_hours |-> credit_hours, grade |-> grade,
     category |-> category]

\* courses the schema accepts: fractional and whole credit hours
ArithCourses ==
    [code : {T1, T2, T3}, credit_hours : {CH(0, 4), CH(3, 0), CH(10, 0)},
     grade : {NoGrade, "A", "B", "E"}, category : {NoCategory}]

\* courses around the limits of credit_hours
LimitCourses ==
    [code : {T1, T2}, credit_hours : {CH(-1, 0), 0, CH(10, 0), CH(10, 1)},
     grade : {NoGrade, "A", "Z"}, category : {NoCategory}]

ExtraCourseLists ==
    { << Crs(T1, CH(3, 0), "A"), Crs(T2, CH(3, 0), "B") >>,
      << Crs(T1, CH(3, 0), "A"), Crs(T2, CH(3, 0), "B"), Crs(T3, CH(3, 0), "B") >>,
      << Crs(T1, CH(1, 1), "E"), Crs(T2, CH(2, 0), NoGrade), Crs(T3, CH(0, 5000), "D") >>,
      << Crs(T1, CH(3, 0), "A"), Crs(T2, CH(3, 0), "B"), Crs(T2, CH(3, 0), "C"),
         Crs(T1, CH(3, 0), "D") >>,
      << Crs(T1, CH(3, 0), "b"), Crs(T2, CH(3, 0), "F") >>,
      << Crs(T1, CH(3, 0), "A"), Crs(T2, CH(3, 0), "Z") >>,
      << Crs(T1, CH(0, 0), "Z"), Crs(T2, CH(3, 0), "A") >>,
      << Crs(T1, CH(3, 0), "Z"), Crs(T1, CH(3, 0), "A") >>,
      << Crs(T3, CH(11, 0), "C"), Crs(T2, CH(0, 0), "A") >> }

\* request payloads: codes as the client typed them
RawCodes == { <<" ", "t", "1", " ">>, <<"T", "1">>, <<"t", "2">>, <<"T", "2", " ">> }

RawCourses ==
    [code : RawCodes, credit_hours : {CH(3, 0), CH(10, 1)},
     grade : {NoGrade, "A"}, category : {NoCategory}]

ExtraRawLists ==
    { << Crs(<<"x">>, CH(3, 0), "A") >>,
      << Crs(<<" ", " ">>, CH(3, 0), "A"), Crs(<<" ", " ", " ">>, CH(3, 0), "B") >>,
      << Crs(T1, CH(3, 0), "a") >>,
      << Crs(<<"D", "U", "P">>, CH(3, 0), "A"), Crs(<<"D", "U", "P">>, CH(3, 0), "B") >>,
      << Crs(T1, CH(3, 0), "A"), Crs(<<"t", "2">>, CH(3, 0), "B"),
         Crs(<<" ", "T", "2">>, CH(3, 0), "C"), Crs(<<"t", "1">>, CH(3, 0), "D") >> }

\* the course lists of a semester
SemesterCourseLists ==
    { <<>>,
      << Crs(T1, CH(3, 0), "A") >>,
      << Crs(T2, CH(3, 0), "B") >>,
      << Crs(T1, CH(10, 0), "A"), Crs(T2, CH(2, 0), NoGrade) >>,
      << Crs(T1, CH(3, 0), "E"), CrsCat(T3, CH(4, 0), "D", <<"M", "a", "t", "h">>) >>,
      << CrsCat(T1, CH(3, 0), "C", <<"m", "a", "t", "h">>) >>,
      << Crs(T1, CH(0, 4), "A") >>,
      << Crs(T1, CH(3, 0), "A"), Crs(T1, CH(3, 0), "B") >>,
      << Crs(T2, CH(0, 0), "A") >>,
      << Crs(T3, CH(3, 0), "Z") >> }

TermName(i) == <<"S1", "S2", "S3", "S4", "S5", "S6">>[((i - 1) % 6) + 1]

SemestersOf(lists) ==
    [i \in DOMAIN lists |-> [term |-> TermName(i), courses |-> lists[i]]]

\* a transcript of n graded courses of 10 credit hours each, the last one of
\* `last` credit hours, six courses a semester, with pairwise distinct codes
BigCode(i) ==
    << <<"U", "V", "W", "X">>[((i - 1) \div 6) + 1],
       <<"1", "2", "3", "4", "5", "6">>[((i - 1) % 6) + 1] >>

BigCourses(n, last, grade) ==
    [i \in 1..n |-> Crs(BigCode(i), IF i = n THEN last ELSE CH(10, 0), grade)]

BigTranscript(n, last, grade) ==
    LET cs == BigCourses(n, last, grade)
        k == ((n - 1) \div 6) + 1
    IN  [j \in 1..k |->
            [term |-> TermName(j),
             courses |-> SubSeq(cs, 6 * (j - 1) + 1, Min(n, 6 * j))]]

BigTranscripts ==
    {BigTranscript(n, last, grade) :
        n \in {17, 18, 19}, last \in {CH(9, 9999), CH(10, 0)}, grade \in {"A", "D"}}

\* a transcript of Len(grades) courses of 3 credit hours with pairwise
\* distinct codes, two courses a semester, course i of grade grades[i]
PatternTranscript(grades) ==
    LET n == Len(grades)
        cs == [i \in 1..n |-> Crs(BigCode(i), CH(3, 0), grades[i])]
        k == (n + 1) \div 2
    IN  [j \in 1..k |->
            [term |-> TermName(j),
             courses |-> SubSeq(cs, 2 * j - 1, Min(n, 2 * j))]]

PatternGrades == {NoGrade, "C", "E", "F"}

PatternProfiles == {[target_class |-> t] : t \in {NoTarget, "Pass"}}

CompletedCourses ==
    [code : {T1, T2}, credit_hours : {CH(3, 0), CH(10, 0)},
     grade : {NoGrade, "A", "F"}, category : {NoCategory}]

ExtraCompletedLists ==
    { << Crs(T1, CH(0, 0), "A") >>,
      << Crs(T1, CH(3, 0), "Z") >>,
      << Crs(T1, CH(3, 0), "Z"), Crs(T1, CH(3, 0), "A") >>,
      << Crs(T1, CH(10, 0), "E"), Crs(T2, CH(10, 0), "F"), Crs(T3, CH(10, 0), "F") >>,
      << Crs(T1, CH(0, 4), "A") >> }

RemainingInputs == {CH(-1, 0), 0, 1, CH(1, 0), CH(9, 0), CH(60, 0), CH(180, 0)}

TargetInputs == BandLabels \cup {"Distinction", "pass"}

ProfileInputs ==
    {[target_class |-> t] : t \in {NoTarget, "First Class Honors", "Pass", "Distinction"}}

CgpaInputs == -500..4500

\* the sequences over S of length 0..n, one length and one sequence at a time
CallGpa(name, S, n) ==
    \E k \in 0..n : \E cs \in [1..k -> S] :
        op = name /\ arg = [courses |-> cs]

CallGpaListed(name, lists) ==
    \E cs \in lists : op = name /\ arg = [courses |-> cs]

CallCgpa(name) ==
    \E k \in 0..MaxSemesters : \E ls \in [1..k -> SemesterCourseLists] :
        op = name /\ arg = [semesters |-> SemestersOf(ls)]

CallProject(name) ==
    \E r \in RemainingInputs, t \in TargetInputs :
        \/ \E k \in 0..MaxCompleted : \E cs \in [1..k -> CompletedCourses] :
              /\ op = name
              /\ arg = [completed |-> cs, remaining_credits |-> r, target_class |-> t]
        \/ \E cs \in ExtraCompletedLists :
              /\ op = name
              /\ arg = [completed |-> cs, remaining_credits |-> r, target_class |-> t]

CallAdvice ==
    \/ \E p \in PatternProfiles :
          \E k \in 0..MaxGraded : \E gs \in [1..k -> PatternGrades] :
              /\ op = "generate_advice"
              /\ arg = [profile |-> p, semesters |-> PatternTranscript(gs)]
    \/ \E p \in ProfileInputs :
        \/ \E k \in 0..MaxSemesters : \E ls \in [1..k -> SemesterCourseLists] :
              /\ op = "generate_advice"
              /\ arg = [profile |-> p, semesters |-> SemestersOf(ls)]
        \/ \E ss \in BigTranscripts :
              op = "generate_advice" /\ arg = [profile |-> p, semesters |-> ss]

Init ==
    /\ pc = "call"
    /\ result = NoResult
    /\ \/ CallGpa("compute_gpa", ArithCourses, MaxCourses)
       \/ CallGpa("compute_gpa", LimitCourses, MaxCourses)
       \/ CallGpaListed("compute_gpa", ExtraCourseLists)
       \/ CallGpa("api_gpa", RawCourses, MaxCourses)
       \/ CallGpaListed("api_gpa", ExtraRawLists)
       \/ CallCgpa("compute_cgpa")
       \/ CallCgpa("api_cgpa")
       \/ \E x \in CgpaInputs : op = "classify_honors" /\ arg = [cgpa |-> x]
       \/ CallProject("project_needed_average")
       \/ CallProject("api_project")
       \/ CallAdvice

Return(r) ==
    /\ result' = r
    /\ pc' = "done"
    /\ UNCHANGED <<op, arg>>

ComputeGpa ==
    /\ pc = "call" /\ op = "compute_gpa"
    /\ Return(compute_gpa(arg.courses))

ApiGpa ==
    /\ pc = "call" /\ op = "api_gpa"
    /\ Return(api_gpa(arg))

ComputeCgpa ==
    /\ pc = "call" /\ op = "compute_cgpa"
    /\ Return(compute_cgpa(arg.semesters))

ApiCgpa ==
    /\ pc = "call" /\ op = "api_cgpa"
    /\ Return(api_cgpa(arg))

ClassifyHonors ==
    /\ pc = "call" /\ op = "classify_honors"
    /\ Return([status |-> "ok", label |-> classify_honors(arg.cgpa)])

ProjectNeededAverage ==
    /\ pc = "call" /\ op = "project_needed_average"
    /\ Return(project_needed_average(arg.completed, arg.remaining_credits,
                                     arg.target_class))

ApiProject ==
    /\ pc = "call" /\ op = "api_project"
    /\ Return(api_project(arg))

GenerateAdvice ==
    /\ pc = "call" /\ op = "generate_advice"
    /\ Return(generate_advice(arg.profile, arg.semesters))

Next ==
    \/ ComputeGpa
    \/ ApiGpa
    \/ ComputeCgpa
    \/ ApiCgpa
    \/ ClassifyHonors
    \/ ProjectNeededAverage
    \/ ApiProject
    \/ GenerateAdvice

Spec == Init /\ [][Next]_vars

----------------------------------------------------------------------------
(* What the claims are stated with: the expected values, written without   *)
(* the operators of the model above where they decide the claim.           *)

Done(name) == pc = "done" /\ op = name

ExpectedPoints(grade) ==
    CASE grade = "A" -> 40 [] grade = "B" -> 30 [] grade = "C" -> 20
      [] grade = "D" -> 10 [] grade = "E" -> 5 [] grade = "F" -> 0

ExpectedThreshold(label) ==
    CASE label = "First Class Honors" -> 370
      [] label = "Second Class Upper" -> 330
      [] label = "Second Class Lower" -> 270
      [] label = "Pass" -> 200

KnownLabels ==
    {"First Class Honors", "Second Class Upper", "Second Class Lower", "Pass"}

\* the code a client's spelling stands for: trimmed and in upper case
ExpectedCode(raw) ==
    CASE raw \in { <<" ", "t", "1", " ">>, <<"T", "1">>, <<"t", "1">> } -> <<"T", "1">>
      [] raw \in { <<"t", "2">>, <<"T", "2", " ">>, <<" ", "T", "2">>, <<"T", "2">> }
           -> <<"T", "2">>
      [] raw \in { <<" ", " ">>, <<" ", " ", " ">> } -> <<>>
      [] OTHER -> raw

DistinctCodes(courses) ==
    \A i, j \in DOMAIN courses : i < j => courses[i].code # courses[j].code

CreditsInRange(courses) ==
    \A i \in DOMAIN courses :
        courses[i].credit_hours > 0 /\ courses[i].credit_hours <= 100000

GradesInSchema(courses) ==
    \A i \in DOMAIN courses :
        courses[i].grade \in {NoGrade, "A", "B", "C", "D", "E", "F"}

RECURSIVE GradedCreditSum(_)
\* the credit hours of the graded courses, in 1/10000 hours
GradedCreditSum(courses) ==
    IF courses = <<>> THEN 0
    ELSE (IF Head(courses).grade = NoGrade THEN 0 ELSE Head(courses).credit_hours)
         + GradedCreditSum(Tail(courses))

RECURSIVE GradedPointSum(_)
\* points(grade) * credit_hours of the graded courses, in 1/100000 point-hours
GradedPointSum(courses) ==
    IF courses = <<>> THEN 0
    ELSE (IF Head(courses).grade = NoGrade THEN 0
          ELSE ExpectedPoints(Head(courses).grade) * Head(courses).credit_hours)
         + GradedPointSum(Tail(courses))

\* the positions whose code repeats that of an earlier entry
Repeats(codes) == {j \in DOMAIN codes : \E i \in 1..(j - 1) : codes[i] = codes[j]}

FirstRepeat(codes) == CHOOSE j \in Repeats(codes) : \A k \in Repeats(codes) : j <= k

\* the graded courses whose credit hours are outside (0, 10]
BadCredit(courses) ==
    {i \in DOMAIN courses :
        /\ courses[i].grade # NoGrade
        /\ (courses[i].credit_hours <= 0 \/ courses[i].credit_hours > 100000)}

FirstOf(S) == CHOOSE j \in S : \A k \in S : j <= k

----------------------------------------------------------------------------
(* C1 *)

\* C1: for a course list with pairwise distinct codes, credit hours in
\* (0, 10] and grades of the schema, compute_gpa returns total_credits = the
\* sum of the credit hours of the graded courses only and total_points = the
\* sum of points(grade) * credit_hours of the graded courses only (each to
\* the 3 decimals the result carries), and gpa = that point sum over that
\* credit sum (to 3 decimals) when a course is graded, 0.0 otherwise;
\* ungraded courses raise no error.
Thm_C1_GpaTotals ==
    (/\ Done("compute_gpa")
     /\ DistinctCodes(arg.courses)
     /\ CreditsInRange(arg.courses)
     /\ GradesInSchema(arg.courses))
    => LET P == GradedPointSum(arg.courses)
           C == GradedCreditSum(arg.courses)
       IN  /\ result.status = "ok"
           /\ result.total_credits = RoundHalfEven(C, 10)
           /\ result.total_points = RoundHalfEven(P, 100)
           /\ result.gpa = (IF C > 0 THEN RoundHalfEven(100 * P, C) ELSE 0)

Wit_C1_GradedAndUngraded ==
    /\ Done("compute_gpa")
    /\ DistinctCodes(arg.courses)
    /\ CreditsInRange(arg.courses)
    /\ GradesInSchema(arg.courses)
    /\ \E i, j \in DOMAIN arg.courses :
          /\ arg.courses[i].grade = NoGrade
          /\ arg.courses[j].grade = "E"
          /\ arg.courses[j].credit_hours = 30000
    /\ result.status = "ok"
    /\ result.total_credits = 3000
    /\ result.gpa = 500

----------------------------------------------------------------------------
(* C2 *)

NormalCodes(raws) == [i \in DOMAIN raws |-> ExpectedCode(raws[i].code)]

CodesOf(courses) == [i \in DOMAIN courses |-> courses[i].code]

\* C2: whenever two entries of a course list the schema accepts have the
\* same normalized (trimmed, upper-case) code, graded or not, the GPA
\* computation fails with DuplicateCourse naming the code of the first
\* repeated entry in list order, and returns no result.
Thm_C2_DuplicateCourse ==
    /\ (/\ Done("api_gpa")
        /\ CreditsInRange(arg.courses)
        /\ GradesInSchema(arg.courses)
        /\ \A i \in DOMAIN arg.courses : Len(arg.courses[i].code) \in 2..16
        /\ Repeats(NormalCodes(arg.courses)) # {})
       => /\ result.status = "DuplicateCourse"
          /\ result.detail =
               NormalCodes(arg.courses)[FirstRepeat(NormalCodes(arg.courses))]
    /\ (/\ Done("compute_gpa")
        /\ CreditsInRange(arg.courses)
        /\ GradesInSchema(arg.courses)
        /\ Repeats(CodesOf(arg.courses)) # {})
       => /\ result.status = "DuplicateCourse"
          /\ result.detail = arg.courses[FirstRepeat(CodesOf(arg.courses))].code

Wit_C2_CaseAndSpace ==
    /\ Done("api_gpa")
    /\ Len(arg.courses) = 2
    /\ arg.courses[1].code = <<" ", "t", "1", " ">>
    /\ arg.courses[2].code = <<"T", "1">>
    /\ arg.courses[1].grade = NoGrade
    /\ arg.courses[1].credit_hours = 30000
    /\ arg.courses[2].credit_hours = 30000
    /\ result.status = "DuplicateCourse"
    /\ result.detail = <<"T", "1">>

----------------------------------------------------------------------------
(* C3 *)

SemesterResults(semesters) ==
    [i \in DOMAIN semesters |-> compute_gpa(semesters[i].courses)]

RECURSIVE SumTotalPoints(_)
SumTotalPoints(rs) ==
    IF rs = <<>> THEN 0 ELSE Head(rs).total_points + SumTotalPoints(Tail(rs))

RECURSIVE SumTotalCredits(_)
SumTotalCredits(rs) ==
    IF rs = <<>> THEN 0 ELSE Head(rs).total_credits + SumTotalCredits(Tail(rs))

AllSemestersOk(semesters) ==
    \A i \in DOMAIN semesters : compute_gpa(semesters[i].courses).status = "ok"

\* C3: when every semester's GPA computation succeeds, compute_cgpa returns
\* cgpa = (sum of the semesters' total_points) / (sum of the semesters'
\* total_credits), to 3 decimals, 0.0 when the total credits are zero, and
\* gpa_by_semester holds one entry per input semester, in input order, each
\* the compute_gpa of that semester's courses.
Thm_C3_CreditWeighted ==
    (Done("compute_cgpa") /\ AllSemestersOk(arg.semesters))
    => LET rs == SemesterResults(arg.semesters)
           P == SumTotalPoints(rs)
           C == SumTotalCredits(rs)
       IN  /\ result.status = "ok"
           /\ result.cgpa = (IF C > 0 THEN RoundHalfEven(1000 * P, C) ELSE 0)
           /\ Len(result.gpa_by_semester) = Len(arg.semesters)
           /\ \A i \in DOMAIN arg.semesters : result.gpa_by_semester[i] = rs[i]

\* two semesters of different weight: the credit-weighted figure is not the
\* mean of the two GPAs
Wit_C3_NotTheMean ==
    /\ Done("compute_cgpa")
    /\ Len(arg.semesters) = 2
    /\ result.status = "ok"
    /\ result.gpa_by_semester[1].total_credits = 10000
    /\ result.gpa_by_semester[2].total_credits = 3000
    /\ result.gpa_by_semester[1].gpa = 4000
    /\ result.gpa_by_semester[2].gpa = 3000
    /\ result.cgpa = 3769

----------------------------------------------------------------------------
(* C4, C5, C7, C10: project_needed_average *)

KnownTarget == arg.target_class \in KnownLabels

CompletedOk == compute_gpa(arg.completed).status = "ok"

\* T * (C + R) - P in 1/1000000 point-hours, for the current call
RequiredPoints ==
    ExpectedThreshold(arg.target_class)
        * (10 * compute_gpa(arg.completed).total_credits + arg.remaining_credits)
      - 1000 * compute_gpa(arg.completed).total_points

\* the required average (T * (C + R) - P) / R exceeds 4.0
RequiredAboveFour == RequiredPoints > 400 * arg.remaining_credits

\* C4: with a known target and remaining_credits > 0, whenever the required
\* average (T*(C+R) - P)/R exceeds 4.0, needed_avg_gpa is exactly 4.0 and
\* the message is the "unreachable" variant.
Cex_C4_UnreachableMessage ==
    (/\ Done("project_needed_average")
     /\ KnownTarget
     /\ CompletedOk
     /\ arg.remaining_credits > 0
     /\ RequiredAboveFour)
    => /\ result.needed_avg_gpa = 4000
       /\ result.message = MsgUnreachable

\* C5: with a known target and a completed list whose GPA computation
\* succeeds, remaining_credits <= 0 returns needed_avg_gpa = 0.0, target_cgpa
\* = the target's threshold and the "already determined" message, whatever
\* the completed points and credits; generate_advice takes this path
\* whenever the graded credits of all semesters are 180 or more.
Thm_C5_EarlyExit ==
    /\ (/\ Done("project_needed_average")
        /\ KnownTarget
        /\ CompletedOk
        /\ arg.remaining_credits <= 0)
       => /\ result.status = "ok"
          /\ result.needed_avg_gpa = 0
          /\ result.target_cgpa = ExpectedThreshold(arg.target_class)
          /\ result.target_class = arg.target_class
          /\ result.message = MsgDetermined
    /\ (/\ Done("generate_advice")
        /\ result.status = "ok"
        /\ GradedCreditSum(Flatten(arg.semesters)) >= 1800000)
       => /\ result.insights # <<>>
          /\ result.insights[Len(result.insights)]
               = [kind |-> "projection", message |-> MsgDetermined]

Wit_C5_NoRemaining ==
    /\ Done("project_needed_average")
    /\ KnownTarget
    /\ arg.remaining_credits < 0
    /\ compute_gpa(arg.completed).status = "ok"
    /\ compute_gpa(arg.completed).total_points > 0
    /\ result.status = "ok"
    /\ result.message = MsgDetermined

\* generate_advice on a transcript of 180 graded credits or more
Reach_C5_AdviceAt180 ==
    /\ Done("generate_advice")
    /\ result.status = "ok"
    /\ GradedCreditSum(Flatten(arg.semesters)) >= 1800000

\* C7: with a known target of threshold T, a valid completed list of points
\* P and credits C and remaining_credits R > 0, target_cgpa = T and
\* needed_avg_gpa = (T*(C+R) - P)/R clamped to [0.0, 4.0] and then rounded to
\* 3 decimals, so 0.0 <= needed_avg_gpa <= 4.0; P=12, C=3, R=9, T=3.30 gives
\* 3.067.
Thm_C7_ClampedAverage ==
    (/\ Done("project_needed_average")
     /\ KnownTarget
     /\ CompletedOk
     /\ arg.remaining_credits > 0)
    => LET N == RequiredPoints
           R == arg.remaining_credits
       IN  /\ result.status = "ok"
           /\ result.target_cgpa = ExpectedThreshold(arg.target_class)
           /\ result.needed_avg_gpa >= 0
           /\ result.needed_avg_gpa <= 4000
           /\ result.needed_avg_gpa =
                (IF N >= 400 * R THEN 4000
                 ELSE IF N <= 0 THEN 0
                 ELSE 10 * (N \div R) + RoundHalfEven(10 * (N % R), R))
           /\ (/\ compute_gpa(arg.completed).total_points = 12000
               /\ compute_gpa(arg.completed).total_credits = 3000
               /\ R = 90000
               /\ arg.target_class = "Second Class Upper")
              => result.needed_avg_gpa = 3067

Wit_C7_Example ==
    /\ Done("project_needed_average")
    /\ compute_gpa(arg.completed).status = "ok"
    /\ compute_gpa(arg.completed).total_points = 12000
    /\ compute_gpa(arg.completed).total_credits = 3000
    /\ arg.remaining_credits = 90000
    /\ arg.target_class = "Second Class Upper"
    /\ result.status = "ok"
    /\ result.needed_avg_gpa = 3067

\* C10: an unknown target label fails with UnknownTargetClass for every
\* completed list and every remaining_credits; with a known label, a
\* completed list (of courses the schema accepts) with duplicate codes fails
\* with DuplicateCourse and returns no projection, for every
\* remaining_credits, those <= 0 included.
Thm_C10_ErrorOrder ==
    Done("project_needed_average")
    => /\ ~KnownTarget => result.status = "UnknownTargetClass"
       /\ (KnownTarget /\ Repeats(CodesOf(arg.completed)) # {})
          => /\ result.status # "ok"
             /\ (CreditsInRange(arg.completed) /\ GradesInSchema(arg.completed))
                => /\ result.status = "DuplicateCourse"
                   /\ result.detail =
                        arg.completed[FirstRepeat(CodesOf(arg.completed))].code

Wit_C10_DuplicateAtNoRemaining ==
    /\ Done("project_needed_average")
    /\ KnownTarget
    /\ Repeats(CodesOf(arg.completed)) # {}
    /\ arg.remaining_credits <= 0
    /\ result.status = "DuplicateCourse"

\* an unknown label with duplicate codes and no remaining credits
Reach_C10_UnknownFirst ==
    /\ Done("project_needed_average")
    /\ ~KnownTarget
    /\ Repeats(CodesOf(arg.completed)) # {}
    /\ arg.remaining_credits <= 0
    /\ result.status = "UnknownTargetClass"

----------------------------------------------------------------------------
(* C6 *)

\* the bands whose threshold is <= x (x in thousandths)
BandsMet(x) == {i \in 1..4 : 10 * ExpectedThreshold(HONORS_BANDS[i].label) <= x}

ExpectedBand(x) ==
    IF BandsMet(x) = {} THEN "Fail"
    ELSE LET i == CHOOSE k \in BandsMet(x) :
                    \A j \in BandsMet(x) :
                        ExpectedThreshold(HONORS_BANDS[j].label)
                          <= ExpectedThreshold(HONORS_BANDS[k].label)
         IN  HONORS_BANDS[i].label

\* C6: classify_honors returns, for every x (negative and above 4.0
\* included), the label of the band with the highest threshold <= x, and
\* "Fail" when x is below every threshold; x equal to a threshold (3.70,
\* 3.30, 2.70, 2.00) returns that band.
Thm_C6_Classify ==
    Done("classify_honors")
    => /\ result.status = "ok"
       /\ result.label = ExpectedBand(arg.cgpa)
       /\ arg.cgpa = 3700 => result.label = "First Class Honors"
       /\ arg.cgpa = 3300 => result.label = "Second Class Upper"
       /\ arg.cgpa = 2700 => result.label = "Second Class Lower"
       /\ arg.cgpa = 2000 => result.label = "Pass"
       /\ arg.cgpa < 2000 => result.label = "Fail"
       /\ arg.cgpa > 4000 => result.label = "First Class Honors"

Wit_C6_AtThreshold ==
    /\ Done("classify_honors")
    /\ arg.cgpa = 3300
    /\ result.label = "Second Class Upper"

----------------------------------------------------------------------------
(* C8 *)

\* C8: a graded course is accepted exactly when 0 < credit_hours <= 10.  A
\* list with a graded course of credit hours 0, negative or above 10 returns
\* no totals; with distinct codes and grades of the schema it fails with
\* InvalidCreditHours naming the first such course, and without such a
\* course (credit hours of exactly 10 included) it succeeds and accumulates
\* every graded course.
Thm_C8_CreditHoursLimits ==
    Done("compute_gpa")
    => /\ BadCredit(arg.courses) # {} => result.status # "ok"
       /\ (DistinctCodes(arg.courses) /\ GradesInSchema(arg.courses))
          => IF BadCredit(arg.courses) # {}
             THEN /\ result.status = "InvalidCreditHours"
                  /\ result.detail = arg.courses[FirstOf(BadCredit(arg.courses))].code
             ELSE /\ result.status = "ok"
                  /\ result.total_credits
                       = RoundHalfEven(GradedCreditSum(arg.courses), 10)

\* 10 credit hours accepted, 10.0001 rejected, in one call
Wit_C8_TenAndJustAbove ==
    /\ Done("compute_gpa")
    /\ Len(arg.courses) = 2
    /\ arg.courses[1].grade = "A" /\ arg.courses[1].credit_hours = 100000
    /\ arg.courses[2].grade = "A" /\ arg.courses[2].credit_hours = 100001
    /\ arg.courses[1].code # arg.courses[2].code
    /\ result.status = "InvalidCreditHours"
    /\ result.detail = arg.courses[2].code

\* exactly 10 credit hours, accumulated
Reach_C8_TenAccepted ==
    /\ Done("compute_gpa")
    /\ Len(arg.courses) = 1
    /\ arg.courses[1].grade = "A" /\ arg.courses[1].credit_hours = 100000
    /\ result.status = "ok"
    /\ result.total_credits = 10000

----------------------------------------------------------------------------
(* C9 *)

Failing(semesters) ==
    {i \in DOMAIN semesters : compute_gpa(semesters[i].courses).status # "ok"}

\* C9: when the GPA computation of a semester fails, compute_cgpa fails with
\* the same error kind, returns no partial result, and the error names the
\* term of the first failing semester in input order.
Cex_C9_TermAnnotated ==
    (Done("compute_cgpa") /\ Failing(arg.semesters) # {})
    => LET f == FirstOf(Failing(arg.semesters)) IN
       /\ result.status = compute_gpa(arg.semesters[f].courses).status
       /\ result.term = arg.semesters[f].term

\* C9 as amended: the error of the first failing semester in input order
\* is surfaced unchanged (same kind, same detail: the course code or the
\* grade), no partial result is returned, and the error names no term.
Thm_C9_ErrorPropagated ==
    (Done("compute_cgpa") /\ Failing(arg.semesters) # {})
    => LET f == FirstOf(Failing(arg.semesters)) IN
       /\ result.status # "ok"
       /\ result.status \in {"DuplicateCourse", "InvalidCreditHours", "InvalidGrade"}
       /\ result = compute_gpa(arg.semesters[f].courses)
       /\ result.term = NoTerm

\* two failing semesters of different kinds after a good one
Wit_C9_FirstOfTwoFailures ==
    /\ Done("compute_cgpa")
    /\ Len(arg.semesters) = 3
    /\ Failing(arg.semesters) = {2, 3}
    /\ compute_gpa(arg.semesters[2].courses).status = "InvalidCreditHours"
    /\ compute_gpa(arg.semesters[3].courses).status = "DuplicateCourse"
    /\ result.status = "InvalidCreditHours"

----------------------------------------------------------------------------
(* C11 *)

RECURSIVE ExpectedRiskIn(_)
\* the at-risk labels of one course list, in list order
ExpectedRiskIn(courses) ==
    IF courses = <<>> THEN <<>>
    ELSE (IF Head(courses).grade \in {"D", "E", "F"}
          THEN << [code |-> Head(courses).code, grade |-> Head(courses).grade] >>
          ELSE <<>>)
         \o ExpectedRiskIn(Tail(courses))

RECURSIVE ExpectedRisk(_)
\* the at-risk labels of a history, semester by semester
ExpectedRisk(semesters) ==
    IF semesters = <<>> THEN <<>>
    ELSE ExpectedRiskIn(Head(semesters).courses) \o ExpectedRisk(Tail(semesters))

ExpectedFixed ==
    << [kind |-> "spaced_repetition"], [kind |-> "weekly_review"],
       [kind |-> "study_group"], [kind |-> "meet_lecturers"] >>

\* C11: for every successful generate_advice call, risk_courses lists, in
\* semester-then-course input order, exactly the graded courses of grade D,
\* E or F, and recommendations is: when risk_courses has n > 0 entries, one
\* leading recommendation naming the first min(5, n) of them, with the
\* ellipsis marker if and only if n > 5, followed by the four fixed
\* recommendations in their fixed order; when it is empty, exactly those four.
Thm_C11_RiskAndRecommendations ==
    (/\ Done("generate_advice")
     /\ result.status = "ok"
     /\ \A i \in DOMAIN arg.semesters : GradesInSchema(arg.semesters[i].courses))
    => LET risk == ExpectedRisk(arg.semesters)
           n == Len(risk)
           recs == result.recommendations
       IN  /\ result.risk_courses = risk
           /\ IF n = 0
              THEN recs = ExpectedFixed
              ELSE /\ Len(recs) = 5
                   /\ recs[1].kind = "weak_units"
                   /\ recs[1].courses = SubSeq(risk, 1, IF n < 5 THEN n ELSE 5)
                   /\ recs[1].ellipsis = (n > 5)
                   /\ SubSeq(recs, 2, 5) = ExpectedFixed

\* six at-risk courses over three semesters, a course of grade C among the
\* courses that are not at risk: five named, then the ellipsis
Wit_C11_MoreThanFive ==
    /\ Done("generate_advice")
    /\ result.status = "ok"
    /\ Len(arg.semesters) = 4
    /\ \E i \in DOMAIN arg.semesters : \E j \in DOMAIN arg.semesters[i].courses :
          arg.semesters[i].courses[j].grade = "C"
    /\ Len(result.risk_courses) = 6
    /\ Len(result.recommendations[1].courses) = 5
    /\ result.recommendations[1].ellipsis

\* exactly five at-risk courses: all named, no ellipsis
Reach_C11_ExactlyFive ==
    /\ Done("generate_advice")
    /\ result.status = "ok"
    /\ Len(result.risk_courses) = 5
    /\ ~result.recommendations[1].ellipsis

\* no at-risk course: the four fixed recommendations alone
Reach_C11_NoRisk ==
    /\ Done("generate_advice")
    /\ result.status = "ok"
    /\ \E i \in DOMAIN arg.semesters : \E j \in DOMAIN arg.semesters[i].courses :
          arg.semesters[i].courses[j].grade = "C"
    /\ result.risk_courses = <<>>
    /\ Len(result.recommendations) = 4

----------------------------------------------------------------------------
(* C12 *)

TargetAbsentOrKnown ==
    arg.profile.target_class = NoTarget \/ arg.profile.target_class \in KnownLabels

\* the codes of the graded courses of semester i
GradedCodes(semesters, i) ==
    {semesters[i].courses[j].code : j \in
        {k \in DOMAIN semesters[i].courses : semesters[i].courses[k].grade # NoGrade}}

\* a code is graded in two different semesters
GradedInTwoSemesters(semesters) ==
    \E i, j \in DOMAIN semesters :
        i < j /\ GradedCodes(semesters, i) \cap GradedCodes(semesters, j) # {}

\* C12: generate_advice returns advice (does not fail) for every semester
\* history on which compute_cgpa succeeds, when the profile's target is
\* absent or a valid label; in particular when one course code is graded in
\* two different semesters.
Cex_C12_AdviceWheneverCgpa ==
    (/\ Done("generate_advice")
     /\ compute_cgpa(arg.semesters).status = "ok"
     /\ TargetAbsentOrKnown)
    => result.status = "ok"

\* the failure: compute_cgpa accepts the history, generate_advice rejects it
Reach_C12_CrossSemesterDuplicate ==
    /\ Done("generate_advice")
    /\ compute_cgpa(arg.semesters).status = "ok"
    /\ TargetAbsentOrKnown
    /\ GradedInTwoSemesters(arg.semesters)
    /\ result.status = "DuplicateCourse"

\* generate_advice fails on such a history exactly when a code is graded in
\* two different semesters
Inv_C12_OnlyCrossSemester ==
    (/\ Done("generate_advice")
     /\ compute_cgpa(arg.semesters).status = "ok"
     /\ TargetAbsentOrKnown)
    => (result.status = "ok" <=> ~GradedInTwoSemesters(arg.semesters))

====
